---------------------------- MODULE Spec2Model ----------------------------
(***************************************************************************)
(* The response pipeline of lcp-llm-response: lambda_function.py,          *)
(* llm_interface.py and db.py.                                             *)
(*                                                                         *)
(* One run is followed from one of the entry points                        *)
(*   lambda_handler                      (lambda_function.py:92)           *)
(*   generate_response_for_conversation  (lambda_function.py:15)           *)
(*   generate_email_response             (llm_interface.py:361), called    *)
(*                                       with its declared parameters      *)
(* to its end.  The collaborators (the db-select Lambda, the Threads table *)
(* and the completion API) answer nondeterministically.                    *)
(***************************************************************************)
EXTENDS Naturals, Sequences, FiniteSets

\* ------------------------------------------------------------- bounds
\* Longest list the db-select Lambda returns for a conversation.
MaxChain == 2
\* Most runs of generate_email_response started on one conversation.
MaxRuns == 2

\* ------------------------------------------------------------ values
\* Python's None.
None == "None"
\* A DynamoDB attribute that the item does not carry.
Absent == "absent"

Handler == "generate_response_for_conversation"
Direct == "generate_email_response"
Trigger == "lambda_handler"
Entries == {Handler, Direct, Trigger}

\* The drafting scenarios (lambda_function.py:59, llm_interface.py:349).
ValidScenarios == {"intro_email", "continuation_email", "closing_referral", "summarizer"}
\* The keys of the dictionary get_prompts returns (prompts.py:195-330).
PromptKeys == ValidScenarios \cup {"selector_llm", "reviewer_llm"}
\* The values a caller passes as scenario: absent, a prompt key, or any other text.
ScenarioArgs == PromptKeys \cup {"banana", None}

ConversationIds == {"c1", None}
AccountIds == {"a1", None}
\* The account ids a responder is made with: also the empty text.
ResponderAccounts == AccountIds \cup {""}
EmailTypes == {"inbound-email", "outbound-email"}
\* One stored email: its sort key and its type (subject, body and sender are carried along unchanged).
Timestamps == {1, 2}
Emails == [timestamp : Timestamps, type : EmailTypes]

RECURSIVE SeqsUpTo(_, _)
SeqsUpTo(S, n) ==
    IF n = 0 THEN {<<>>}
    ELSE LET shorter == SeqsUpTo(S, n - 1)
         IN  shorter \cup {Append(s, x) : s \in {t \in shorter : Len(t) = n - 1}, x \in S}

\* What invoke_db_select returns: None on any failure (is_list FALSE), else the
\* list of items.
NoList == [is_list |-> FALSE, items |-> <<>>]
DbResults == {NoList} \cup {[is_list |-> TRUE, items |-> s] : s \in SeqsUpTo(Emails, MaxChain)}

Flags == {"true", "false"}
\* The Threads item of the conversation: missing, or with its three attributes.
NoThread == [exists |-> FALSE, busy |-> Absent, flag_for_review |-> Absent, flag_review_override |-> Absent]
Threads ==
    {NoThread} \cup
    [exists : {TRUE}, busy : Flags, flag_for_review : Flags, flag_review_override : Flags \cup {Absent}]

\* config.AUTH_BP: the session id that skips authorization and rate limiting.
AUTH_BP == "auth-bypass"
\* The keys of a trigger payload; a key it does not carry is Absent.
Payloads ==
    [conversation_id : {"c1", Absent}, account_id : {"a1", Absent},
     is_first_email : {"True", Absent}, scenario : {"summarizer", Absent},
     session_id : {AUTH_BP, "s1", Absent}]
NoPayload ==
    [conversation_id |-> Absent, account_id |-> Absent, is_first_email |-> Absent,
     scenario |-> Absent, session_id |-> Absent]
\* event['body']: not there, a string that is no JSON, or the JSON text of a payload.
NoBody == [kind |-> "absent", fields |-> NoPayload]
Bodies ==
    {NoBody, [kind |-> "invalid", fields |-> NoPayload]} \cup
    {[kind |-> "json", fields |-> p] :
        p \in {q \in Payloads : q.is_first_email = Absent /\ q.scenario = Absent}}
Events == [top : Payloads, body : Bodies]
NoEvent == [top |-> NoPayload, body |-> NoBody]

VARIABLES
    entry,            \* the entry point of the run
    pc,               \* the position of the run
    conversation_id, account_id, is_first_email, scenario,   \* the arguments
    dbResult,         \* what the db-select Lambda answers for the conversation
    chain,            \* the email chain the run works on
    thread,           \* the Threads item of the conversation
    thread0,          \* the Threads item when the run started
    threadReads,      \* get_item calls on the Threads table, as <<succeeded>>
    threadWrites,     \* update_item calls on the Threads table, as <<succeeded>>
    gate,             \* the Reviewer Gate: "notrun", "skipped", or its return value
    override,         \* what get_thread_flag_review_override returned
    calls,            \* the LLMResponder.send calls, in order: [role, prompt, raised]
    requests,         \* the HTTP requests that reached the completion API
    audits,           \* the invocation records stored
    effective,        \* the scenario generate_email_response settled on
    outcome,          \* how the call of generate_email_response ended
    result,           \* the dictionary generate_response_for_conversation returned
    event,            \* the trigger payload lambda_handler was called with
    session_id,       \* lambda_handler's session_id
    netCalls,         \* the collaborator calls lambda_function.py made, in order
    response,         \* what lambda_handler returned
    apiReply,         \* the API response to the send call examined on its own
    sendEnd,          \* how the send call examined on its own ended
    user,             \* the Users row of the account
    prompts,          \* the dictionary get_prompts returned
    runs,             \* the runs of generate_email_response side by side on one thread
    started,          \* how many of them were started
    access            \* what authorize and the rate-limit calls hold for the account

vars == <<entry, pc, conversation_id, account_id, is_first_email, scenario, dbResult, chain,
          thread, thread0, threadReads, threadWrites, gate, override, calls, requests, audits,
          effective, outcome, result, event, session_id, netCalls, response, apiReply,
          sendEnd, user, prompts, runs, started, access>>

\* The run's entry point, the db-select answer and the account's standing with
\* authorize and the rate limiter never change.
fixed == <<entry, dbResult, access>>
\* The arguments of generate_response_for_conversation.
args == <<fixed, conversation_id, account_id, is_first_email, scenario>>
\* lambda_handler's own state.
triggerVars == <<event, session_id, response>>
\* The state of the calls examined on their own and of the runs side by side.
unitVars == <<apiReply, sendEnd, user, prompts, runs, started>>

\* -------------------------------------------------------------- db.py
\* sorted(result, key=timestamp): Python's sort is stable.
InsertSorted(t, x) ==
    LET k == Cardinality({i \in 1..Len(t) : t[i].timestamp <= x.timestamp})
    IN  SubSeq(t, 1, k) \o <<x>> \o SubSeq(t, k + 1, Len(t))

RECURSIVE SortedPrefix(_, _)
SortedPrefix(s, n) ==
    IF n = 0 THEN <<>> ELSE InsertSorted(SortedPrefix(s, n - 1), s[n])

\* get_email_chain: [] when the lookup gave no list, else the items by timestamp.
get_email_chain(res) ==
    IF ~res.is_list THEN <<>> ELSE SortedPrefix(res.items, Len(res.items))


\* --------------------------------------------------------- prompts.py
\* The Users row of an account, as far as get_prompts reads it; a missing
\* attribute reads as its default ('NULL', '').
UserRows ==
    [lcp_tone : {"NULL", "warm"}, lcp_style : {"NULL", "concise"},
     lcp_sample_prompt : {"NULL", "sample"}, location : {"", "Austin"}, state : {"", "TX"},
     country : {"", "United States", "Canada"}, zipcode : {"", "78701"}, bio : {"", "bio"}]
BlankRow ==
    [lcp_tone |-> "NULL", lcp_style |-> "NULL", lcp_sample_prompt |-> "NULL", location |-> "",
     state |-> "", country |-> "", zipcode |-> "", bio |-> ""]
\* What the Users lookup gives: no row (a failed or empty lookup), or the row.
NoUser == [found |-> FALSE, row |-> BlankRow]
Users == {NoUser} \cup {[found |-> TRUE, row |-> r] : r \in UserRows}

\* get_user_tone, get_user_style, get_user_sample_prompt
get_user_tone(acc, u) ==
    IF acc \in {None, ""} THEN "NULL" ELSE IF u.found THEN u.row.lcp_tone ELSE "NULL"
get_user_style(acc, u) ==
    IF acc \in {None, ""} THEN "NULL" ELSE IF u.found THEN u.row.lcp_style ELSE "NULL"
get_user_sample_prompt(acc, u) ==
    IF acc \in {None, ""} THEN "NULL" ELSE IF u.found THEN u.row.lcp_sample_prompt ELSE "NULL"

\* get_user_location_data: {} without an account or a row.
NoLocationData ==
    [empty |-> TRUE, location |-> "", state |-> "", country |-> "", zipcode |-> "", bio |-> ""]
get_user_location_data(acc, u) ==
    IF acc \in {None, ""} \/ ~u.found THEN NoLocationData
    ELSE [empty |-> FALSE, location |-> u.row.location, state |-> u.row.state,
          country |-> u.row.country, zipcode |-> u.row.zipcode, bio |-> u.row.bio]

\* Line 143 without lower().
lower_country_unchanged(c) == c

\* str.lower() on the country names.
lower_country(c) ==
    IF c = "United States" THEN "united states" ELSE IF c = "Canada" THEN "canada" ELSE c

\* A piece of text put into a prompt: not there, or made from the given values.
NoClause == [present |-> FALSE, form |-> "", of |-> <<>>]
Clause(form, values) == [present |-> TRUE, form |-> form, of |-> values]

\* construct_realtor_bio, lines 138-151: the places named, then the zipcode.
location_str(ld) ==
    LET location_info ==
            (IF ld.location # "" THEN <<ld.location>> ELSE <<>>) \o
            (IF ld.state # "" THEN <<ld.state>> ELSE <<>>) \o
            (IF ld.country # "" /\ lower_country(ld.country) # "united states"
             THEN <<ld.country>> ELSE <<>>)
    IN  IF location_info = <<>> THEN <<>>
        ELSE IF ld.zipcode # "" THEN location_info \o <<"(", ld.zipcode, ")">>
        ELSE location_info

\* construct_realtor_bio
construct_realtor_bio(ld) ==
    IF ld.empty THEN NoClause
    ELSE IF ld.bio # ""
    THEN IF location_str(ld) # <<>>
         THEN Clause("bio and market", <<ld.bio>> \o location_str(ld))
         ELSE Clause("bio", <<ld.bio>>)
    ELSE IF location_str(ld) # <<>>
    THEN Clause("local expert", location_str(ld))
    ELSE NoClause

\* The max_tokens of each entry (lines 199-323); the other hyperparameters are
\* literals of the entry as well.
max_tokens ==
    [summarizer |-> 256, intro_email |-> 100, continuation_email |-> 150,
     closing_referral |-> 200, selector_llm |-> 2, reviewer_llm |-> 1]

\* get_prompts putting the account's clauses into the selector_llm and
\* reviewer_llm texts as well, and giving a sample more room.
get_prompts_personalising_all(acc, u) ==
    LET personal == acc \notin {None, "", "selector_llm", "reviewer_llm"}
        user_tone == get_user_tone(acc, u)
        user_sample == get_user_sample_prompt(acc, u)
        tone == IF personal /\ user_tone # "NULL" THEN Clause("tone", <<user_tone>>)
                ELSE NoClause
        sample_instruction ==
            IF personal /\ user_sample # "NULL" THEN Clause("sample", <<user_sample>>)
            ELSE NoClause
        realtor_bio == IF personal THEN construct_realtor_bio(get_user_location_data(acc, u))
                       ELSE NoClause
    IN  [k \in PromptKeys |->
            [system |-> [template |-> k, realtor_bio |-> realtor_bio, tone |-> tone,
                         style |-> NoClause, sample_instruction |-> sample_instruction],
             hyperparameters |->
                 [max_tokens |-> IF sample_instruction.present THEN 2 * max_tokens[k]
                                 ELSE max_tokens[k]]]]

\* get_prompts: each entry's system text, as the template of the scenario with
\* what is put into it, and its hyperparameters.
get_prompts(acc, u) ==
    LET personal == acc \notin {None, "", "selector_llm", "reviewer_llm"}
        user_tone == get_user_tone(acc, u)
        user_style == get_user_style(acc, u)
        user_sample == get_user_sample_prompt(acc, u)
        tone == IF personal /\ user_tone # "NULL" THEN Clause("tone", <<user_tone>>)
                ELSE NoClause
        style == IF personal /\ user_style # "NULL" THEN Clause("style", <<user_style>>)
                 ELSE NoClause
        sample_instruction ==
            IF personal /\ user_sample # "NULL" THEN Clause("sample", <<user_sample>>)
            ELSE NoClause
        realtor_bio == IF personal THEN construct_realtor_bio(get_user_location_data(acc, u))
                       ELSE NoClause
    IN  [k \in PromptKeys |->
            IF k \in ValidScenarios
            THEN [system |-> [template |-> k, realtor_bio |-> realtor_bio, tone |-> tone,
                              style |-> style, sample_instruction |-> sample_instruction],
                  hyperparameters |-> [max_tokens |-> max_tokens[k]]]
            ELSE [system |-> [template |-> k, realtor_bio |-> NoClause, tone |-> NoClause,
                              style |-> NoClause, sample_instruction |-> NoClause],
                  hyperparameters |-> [max_tokens |-> max_tokens[k]]]]

\* No dictionary.
NoPrompts ==
    [k \in PromptKeys |->
        [system |-> [template |-> None, realtor_bio |-> NoClause, tone |-> NoClause,
                     style |-> NoClause, sample_instruction |-> NoClause],
         hyperparameters |-> [max_tokens |-> 0]]]

\* ---------------------------------------------------- llm_interface.py
\* A text, as far as strip(), upper(), lower() and replace('\\n', '\n') tell texts
\* apart: the stripped, lower-cased text; the casing of its letters; whether
\* whitespace surrounds it; whether it holds the two characters backslash, n.
Words == {"flag", "continue", "intro", "intro_email", "continuation_email",
          "closing_referral", "summarizer", "selector_llm", "reviewer_llm", "banana", ""}
Casings == {"lower", "upper", "mixed"}
Texts == [word : Words, casing : Casings, padded : BOOLEAN, escaped_nl : BOOLEAN]
Literal(w, c) == [word |-> w, casing |-> c, padded |-> FALSE, escaped_nl |-> FALSE]
NoText == Literal("", "lower")
strip(t) == [t EXCEPT !.padded = FALSE]
upper(t) == [t EXCEPT !.casing = IF t.word = "" THEN t.casing ELSE "upper"]
lower(t) == [t EXCEPT !.casing = IF t.word = "" THEN t.casing ELSE "lower"]
\* content.replace('\\n', '\n') (llm_interface.py:132)
unescape_newlines(t) == [t EXCEPT !.escaped_nl = FALSE]
\* Comparison with a literal written in one casing.
Equals(t, w, c) == t.word = w /\ ~t.padded /\ ~t.escaped_nl /\ (t.casing = c \/ w = "")

\* What the completion API answers to one request.
ReplyTexts ==
    {Literal("flag", "upper"), Literal("continue", "upper"), Literal("continue", "mixed"),
     [word |-> "flag", casing |-> "lower", padded |-> TRUE, escaped_nl |-> FALSE],
     Literal("intro", "upper"), Literal("summarizer", "lower"), Literal("banana", "lower"),
     [word |-> "banana", casing |-> "mixed", padded |-> FALSE, escaped_nl |-> TRUE],
     Literal("", "lower")}
\* A status other than 200; a 200 without 'choices'; a 200 whose 'choices' hold
\* no message content; a 200 with a content.  The usage counts are optional.
HttpResponses ==
    {[status |-> 500, choices |-> "missing", content |-> NoText, usage |-> "missing"],
     [status |-> 200, choices |-> "missing", content |-> NoText, usage |-> "missing"]} \cup
    [status : {200}, choices : {"malformed"}, content : {NoText}, usage : {"given", "missing"}]
    \cup
    [status : {200}, choices : {"ok"}, content : ReplyTexts, usage : {"given", "missing"}]
NoHttp == [status |-> 0, choices |-> "missing", content |-> NoText, usage |-> "missing"]
\* The model every LLMResponder names (llm_interface.py:37).
ModelName == "meta-llama/Llama-4-Maverick-17B-128E-Instruct-FP8"

\* llm_interface.py imports TAI_KEY, AWS_REGION, get_prompts and store_llm_invocation
\* (lines 5-8): the name PROMPTS that send reads at line 74 is bound nowhere in
\* the module.
PROMPTS_bound == FALSE

\* LLMResponder.__init__: an unknown scenario falls back to continuation_email.
LLMResponder(s, acc) ==
    [scenario |-> IF s \in PromptKeys THEN s ELSE "continuation_email", account_id |-> acc,
     model_name |-> ModelName]

\* Line 52 testing for 'outbound-email' instead.
format_conversation_by_outbound(responder, email_chain) ==
    <<[role |-> "system", content |-> responder.scenario]>> \o
    [i \in 1..Len(email_chain) |->
        [role |-> IF email_chain[i].type = "outbound-email" THEN "assistant" ELSE "user",
         content |-> email_chain[i]]]

\* LLMResponder.format_conversation: the system message, then one message per email.
format_conversation(responder, email_chain) ==
    <<[role |-> "system", content |-> responder.scenario]>> \o
    [i \in 1..Len(email_chain) |->
        [role |-> IF email_chain[i].type = "inbound-email" THEN "user" ELSE "assistant",
         content |-> email_chain[i]]]

\* lines 110-113: the token counts of the response, 0 where it reports none.
prompt_tokens(h) == IF h.usage = "given" THEN 11 ELSE 0
completion_tokens(h) == IF h.usage = "given" THEN 5 ELSE 0

\* store_llm_invocation(...): the record appended for one completed call.
AuditRecord(responder, conv, h) ==
    [associated_account |-> responder.account_id, input_tokens |-> prompt_tokens(h),
     output_tokens |-> completion_tokens(h), llm_email_type |-> responder.scenario,
     model_name |-> responder.model_name, conversation_id |-> conv]

\* Line 118 storing a record for every call.
HasAccount_always(responder) == TRUE

\* line 118: if self.account_id
HasAccount(responder) == responder.account_id \notin {None, ""}

\* How a send call ended.  requested: the HTTP request was made; audited: the
\* invocation record was stored; raised: the call ended by an exception.
NotSent ==
    [raised |-> FALSE, exc |-> None, requested |-> FALSE, audited |-> FALSE, text |-> NoText]

\* LLMResponder.send, lines 86-132: the request and the handling of its response.
send_request(responder, h) ==
    IF h.status # 200
    THEN [raised |-> TRUE, exc |-> "Exception", requested |-> TRUE, audited |-> FALSE,
          text |-> NoText]
    ELSE IF h.choices = "missing"
    THEN [raised |-> TRUE, exc |-> "Exception", requested |-> TRUE, audited |-> FALSE,
          text |-> NoText]
    ELSE IF h.choices = "malformed"
    THEN [raised |-> TRUE, exc |-> "KeyError", requested |-> TRUE,
          audited |-> HasAccount(responder), text |-> NoText]
    ELSE [raised |-> FALSE, exc |-> None, requested |-> TRUE,
          audited |-> HasAccount(responder), text |-> unescape_newlines(h.content)]

\* LLMResponder.send: the loop of line 74 reads PROMPTS before anything is sent.
send(responder, h) ==
    IF ~PROMPTS_bound
    THEN [raised |-> TRUE, exc |-> "NameError", requested |-> FALSE, audited |-> FALSE,
          text |-> NoText]
    ELSE send_request(responder, h)

\* Line 242 without the default of get().
get_thread_flag_review_override_no_default(th, readOk) ==
    IF ~readOk THEN None
    ELSE IF ~th.exists THEN None
    ELSE IF th.flag_review_override = Absent THEN None
    ELSE th.flag_review_override

\* get_thread_flag_review_override: None when the read fails or the item is
\* missing, 'false' when the item lacks the attribute.
get_thread_flag_review_override(th, readOk) ==
    IF ~readOk THEN None
    ELSE IF ~th.exists THEN None
    ELSE IF th.flag_review_override = Absent THEN "false"
    ELSE th.flag_review_override

\* The update of lines 203-210 setting busy alone.
update_thread_busy_only(th, writeOk) ==
    IF ~writeOk THEN th
    ELSE [th EXCEPT !.exists = TRUE, !.busy = "false",
                    !.flag_for_review = IF th.exists THEN th.flag_for_review ELSE Absent]

\* The update of lines 203-210 setting flag_for_review alone.
update_thread_flag_only(th, writeOk) ==
    IF ~writeOk THEN th
    ELSE [th EXCEPT !.exists = TRUE, !.flag_for_review = "true",
                    !.busy = IF th.exists THEN th.busy ELSE Absent]

\* The update of lines 203-210 writing the opposite of the flag it finds.
update_thread_flag_toggling(th, writeOk) ==
    IF ~writeOk THEN th
    ELSE [th EXCEPT !.exists = TRUE,
                    !.flag_for_review = IF th.flag_for_review = "true" THEN "false" ELSE "true",
                    !.busy = "false"]

\* update_thread_flag_for_review(conversation_id, 'true'): one update_item that
\* sets flag_for_review and busy together; a failed update leaves the item.
update_thread_flag_for_review(th, writeOk) ==
    IF ~writeOk THEN th
    ELSE [th EXCEPT !.exists = TRUE, !.flag_for_review = "true", !.busy = "false"]

\* Lines 306-312 taking an unknown decision as CONTINUE.
ReviewerDecision_unknown_continues(sent) ==
    IF sent.raised THEN TRUE
    ELSE Equals(upper(strip(sent.text)), "flag", "upper")

\* update_thread_flag_for_review(conversation_id, 'false'), lines 211-216: sets
\* flag_for_review alone.
clear_thread_flag_for_review(th) == [th EXCEPT !.flag_for_review = "false"]

\* update_thread_flag_review_override(conversation_id, flag_value)
update_thread_flag_review_override(th, flag_value) ==
    [th EXCEPT !.flag_review_override = flag_value]

\* check_with_reviewer_llm, lines 294-318: the decision taken from how the
\* reviewer call ended.  TRUE: flag for review.
ReviewerDecision(sent) ==
    IF sent.raised THEN TRUE
    ELSE IF Equals(upper(strip(sent.text)), "flag", "upper") THEN TRUE
    ELSE IF Equals(upper(strip(sent.text)), "continue", "upper") THEN FALSE
    ELSE TRUE

\* Lines 336-355 without lower().
SelectedScenario_case_sensitive(sent) ==
    IF sent.raised THEN "continuation_email"
    ELSE LET t == strip(sent.text)
             s == IF Equals(t, "intro", "lower") THEN "intro_email" ELSE t.word
         IN  IF s \in ValidScenarios /\ (s = "intro_email" \/ t.casing = "lower")
             THEN s ELSE "continuation_email"

\* select_scenario_with_llm, lines 333-359: the scenario taken from how the
\* selector call ended.
SelectedScenario(sent) ==
    IF sent.raised THEN "continuation_email"
    ELSE LET t == lower(strip(sent.text))
             s == IF Equals(t, "intro", "lower") THEN "intro_email" ELSE t.word
         IN  IF s \in ValidScenarios THEN s ELSE "continuation_email"

\* -------------------------------------------------- lambda_function.py
\* The call at lambda_function.py:45 passes chain, account_id, conversation_id,
\* scenario and invocation_id by position.
NumPositionalArgs == 5
\* def generate_email_response(emails, uid, conversation_id=None, scenario=None)
NumParameters == 4
\* Python binds positional arguments to parameters, or raises TypeError.
CallBinds == NumPositionalArgs <= NumParameters

InvocationId == "inv-1"
\* How a call ended: by a return of None, by a return of a text, or by an exception.
Pending == [kind |-> "pending", response |-> None, text |-> NoText, exc |-> None]
ReturnedNone == [kind |-> "returned", response |-> None, text |-> NoText, exc |-> None]
ReturnedText(t) == [kind |-> "returned", response |-> "text", text |-> t, exc |-> None]
Raised(e) == [kind |-> "raised", response |-> None, text |-> NoText, exc |-> e]
\* A result dictionary; a key it does not carry is Absent, response is None or "text".
NoResult ==
    [status |-> None, response |-> Absent, text |-> NoText, conversation_id |-> Absent,
     invocation_id |-> Absent, llm_email_type |-> Absent, error |-> Absent]

\* The list of line 59 without 'summarizer'.
llm_email_type_without_summarizer(scen) ==
    IF scen \in {"intro_email", "continuation_email", "closing_referral"}
    THEN scen ELSE "continuation_email"

\* lambda_function.py:59
llm_email_type(scen) ==
    IF scen \in ValidScenarios THEN scen ELSE "continuation_email"

\* generate_response_for_conversation, lines 48-74: the dictionary returned for
\* the way the work of lines 35-45 ended.
ResultOf(out, conv, scen) ==
    IF out.kind = "raised"
    THEN [status |-> "error", response |-> Absent, text |-> NoText,
          conversation_id |-> Absent, invocation_id |-> InvocationId,
          llm_email_type |-> Absent, error |-> out.exc]
    ELSE IF out.response = None
    THEN [status |-> "flagged_for_review", response |-> None, text |-> NoText,
          conversation_id |-> conv, invocation_id |-> InvocationId,
          llm_email_type |-> Absent, error |-> Absent]
    ELSE [status |-> "success", response |-> "text", text |-> out.text,
          conversation_id |-> conv, invocation_id |-> InvocationId,
          llm_email_type |-> llm_email_type(scen), error |-> Absent]

\* lambda_handler, lines 185-192 and 155-162: the body of an error response.
ErrorBody(e) ==
    [status |-> "error", response |-> Absent, text |-> NoText, conversation_id |-> Absent,
     invocation_id |-> InvocationId, llm_email_type |-> Absent, error |-> e]
NoResponse == [statusCode |-> 0, body |-> NoResult]

\* lambda_handler, lines 109-113: the locals before the payload is read.
Unparsed ==
    [raised |-> FALSE, exc |-> None, stop |-> FALSE, conv_id |-> None, acc_id |-> None,
     is_first |-> FALSE, scenario |-> None, session_id |-> None]
\* The raise statements of lines 123-137 left out.
ParseFails_ignored(st, e) == st
\* raise ValueError(...), or the KeyError or JSONDecodeError of a lookup.
ParseFails(st, e) == [st EXCEPT !.raised = TRUE, !.exc = e]

\* lines 126-131 and 141-146: the optional keys the payload carries.
TakeOptional(st, p) ==
    [st EXCEPT !.is_first = IF p.is_first_email # Absent THEN p.is_first_email = "True" ELSE @,
               !.scenario = IF p.scenario # Absent THEN p.scenario ELSE @,
               !.session_id = IF p.session_id # Absent THEN p.session_id ELSE @]

\* line 118: if field not in event
FieldMissing(ev, field) == ev.top[field] = Absent

\* lines 118-146: one pass of the loop over the required fields.
ValidateField(st, ev, field) ==
    IF st.raised \/ st.stop THEN st
    ELSE IF FieldMissing(ev, field)
    THEN IF ev.body.kind = "absent"
         THEN ParseFails(st, "Missing required field: conversation_id or account_id")
         ELSE IF ev.body.kind = "invalid"
         THEN ParseFails(st, "JSONDecodeError")
         ELSE IF ev.body.fields.conversation_id = Absent
         THEN ParseFails(st, "Missing required field: conversation_id")
         ELSE IF ev.body.fields.account_id = Absent
         THEN ParseFails(st, "Missing required field: account_id")
         ELSE [TakeOptional(st, ev.body.fields) EXCEPT
                   !.conv_id = ev.body.fields.conversation_id,
                   !.acc_id = ev.body.fields.account_id,
                   !.stop = TRUE]
    ELSE IF ev.top.conversation_id = Absent
    THEN ParseFails(st, "KeyError: conversation_id")
    ELSE IF ev.top.account_id = Absent
    THEN ParseFails(st, "KeyError: account_id")
    ELSE [TakeOptional(st, ev.top) EXCEPT !.conv_id = ev.top.conversation_id,
                                          !.acc_id = ev.top.account_id]

\* lines 116-146
parse_event(ev) ==
    ValidateField(ValidateField(Unparsed, ev, "conversation_id"), ev, "account_id")

\* lambda_function.py neither defines nor imports the name authorize that line
\* 150 calls.
authorize_bound == FALSE

\* What the calls of lines 150-152 meet for the account and session: authorize
\* refuses the session; check_rate_limit answers (False, error_msg);
\* update_invocation_count answers False; all three let the invocation pass.
Unauthorized == "unauthorized"
Exceeded == "exceeded"
Uncounted == "uncounted"
Allowed == "allowed"
Accesses == {Unauthorized, Exceeded, Uncounted, Allowed}

\* The runs of generate_email_response that go on at the same time on one
\* conversation (one per Lambda invocation).
RunIds == {1, 2}
\* What a get_item or update_item of a run met: whether it was made, whether
\* it succeeded, and the override the Threads item held at that moment.
NoAccess == [made |-> FALSE, ok |-> FALSE, flag_review_override |-> Absent]
Access(ok, th) == [made |-> TRUE, ok |-> ok, flag_review_override |-> th.flag_review_override]
\* A run that was not started: the locals of generate_email_response and of
\* check_with_reviewer_llm.
Idle ==
    [pc |-> "idle", override |-> "unread", gate |-> "notrun", calls |-> <<>>, read |-> NoAccess,
     write |-> NoAccess, effective |-> None, outcome |-> Pending]
NoRuns == [r \in RunIds |-> Idle]

\* ---------------------------------------------------------------- Init
\* What the run has not touched yet.
Untouched ==
    /\ thread0 = thread
    /\ threadReads = <<>>
    /\ threadWrites = <<>>
    /\ gate = "notrun"
    /\ override = "unread"
    /\ calls = <<>>
    /\ requests = 0
    /\ audits = <<>>
    /\ netCalls = <<>>
    /\ result = NoResult
    /\ response = NoResponse

\* No call is examined on its own.
NoUnit ==
    /\ apiReply = NoHttp
    /\ sendEnd = NotSent
    /\ user = NoUser
    /\ prompts = NoPrompts
    /\ runs = NoRuns
    /\ started = 0

Init ==
    /\ entry \in Entries
    /\ IF entry = Trigger
       THEN /\ pc = "lh_parse"
            /\ event \in Events
            /\ access \in Accesses
            /\ conversation_id = None
            /\ account_id = None
            /\ is_first_email = FALSE
            /\ scenario = None
            /\ dbResult \in {r \in DbResults : Len(r.items) <= 1}
            /\ thread \in {t \in Threads : t.exists => t.busy = "true" /\ t.flag_for_review = "false"}
            /\ chain = <<>>
       ELSE /\ event = NoEvent
            /\ access = Allowed
            /\ conversation_id \in ConversationIds
            /\ account_id \in AccountIds
            /\ scenario \in ScenarioArgs
            /\ thread \in Threads
            /\ IF entry = Handler
               THEN /\ pc = "start"
                    /\ is_first_email \in BOOLEAN
                    /\ dbResult \in DbResults
                    /\ chain = <<>>
               ELSE /\ pc = "ger_entry"
                    /\ is_first_email = FALSE
                    /\ dbResult = NoList
                    /\ chain \in SeqsUpTo(Emails, MaxChain)
    /\ session_id = None
    /\ Untouched
    /\ NoUnit
    /\ effective = None
    /\ outcome = Pending

\* Where generate_email_response hands back to: its caller, or the end of the run.
AfterGenerate == IF entry = Direct THEN "done" ELSE "returned"

\* Where generate_response_for_conversation hands back to: lambda_handler, or
\* the end of the run.
AfterResponse == IF entry = Trigger THEN "lh_return" ELSE "done"

\* ------------------------------ generate_response_for_conversation
\* Line 37 without its check.
ChainMissing_unchecked(c) == FALSE

\* line 37: if not chain
ChainMissing(c) == c = <<>>

\* lines 35-38: fetch the chain; an empty chain raises ValueError.
GetEmailChain ==
    /\ pc = "start"
    /\ netCalls' = Append(netCalls, "get_email_chain")
    /\ chain' = get_email_chain(dbResult)
    /\ IF ChainMissing(chain')
       THEN /\ outcome' = Raised("Could not get email chain")
            /\ pc' = "returned"
       ELSE /\ outcome' = outcome
            /\ pc' = "truncate"
    /\ UNCHANGED <<args, triggerVars, unitVars,
                   thread, thread0, threadReads, threadWrites, gate, override, calls,
                   requests, audits, effective, result>>

\* Line 42 keeping chain[-1].
first_message_latest(c) == <<c[Len(c)]>>

\* line 42: [chain[0]]
first_message(c) == <<c[1]>>

\* lines 41-42: a first email keeps only the first message (chain[0] of an
\* empty list raises IndexError).
TruncateFirstEmail ==
    /\ pc = "truncate"
    /\ IF is_first_email /\ chain = <<>>
       THEN /\ chain' = chain
            /\ outcome' = Raised("IndexError")
            /\ pc' = "returned"
       ELSE /\ chain' = IF is_first_email THEN first_message(chain) ELSE chain
            /\ outcome' = outcome
            /\ pc' = "call"
    /\ UNCHANGED <<args, triggerVars, unitVars, netCalls,
                   thread, thread0, threadReads, threadWrites, gate, override, calls,
                   requests, audits, effective, result>>

\* line 45: the call of generate_email_response.
CallGenerateEmailResponse ==
    /\ pc = "call"
    /\ IF CallBinds
       THEN /\ pc' = "ger_entry"
            /\ outcome' = outcome
       ELSE /\ pc' = "returned"
            /\ outcome' = Raised("TypeError")
    /\ UNCHANGED <<args, triggerVars, unitVars, netCalls,
                   chain, thread, thread0, threadReads, threadWrites, gate, override,
                   calls, requests, audits, effective, result>>

\* Lines 68-74 making the call of line 45 again instead of returning the error.
ReturnResult_retrying ==
    /\ pc = "returned"
    /\ IF outcome.kind = "raised"
       THEN /\ pc' = "call"
            /\ result' = result
       ELSE /\ pc' = AfterResponse
            /\ result' = ResultOf(outcome, conversation_id, scenario)
    /\ UNCHANGED <<args, triggerVars, unitVars, netCalls,
                   chain, thread, thread0, threadReads, threadWrites, gate, override,
                   calls, requests, audits, effective, outcome>>

\* lines 46-74: the result for the caller.
ReturnResult ==
    /\ pc = "returned"
    /\ result' = ResultOf(outcome, conversation_id, scenario)
    /\ pc' = AfterResponse
    /\ UNCHANGED <<args, triggerVars, unitVars, netCalls,
                   chain, thread, thread0, threadReads, threadWrites, gate, override,
                   calls, requests, audits, effective, outcome>>

\* ------------------------------------------------------ lambda_handler
\* lines 114-146 and 181-192: read the payload; an exception gives the error
\* response.
ParseEvent ==
    /\ pc = "lh_parse"
    /\ LET st == parse_event(event)
       IN  IF st.raised
           THEN /\ response' = [statusCode |-> 500, body |-> ErrorBody(st.exc)]
                /\ pc' = "done"
                /\ UNCHANGED <<conversation_id, account_id, is_first_email, scenario,
                               session_id>>
           ELSE /\ conversation_id' = st.conv_id
                /\ account_id' = st.acc_id
                /\ is_first_email' = st.is_first
                /\ scenario' = st.scenario
                /\ session_id' = st.session_id
                /\ response' = response
                /\ pc' = "lh_authorize"
    /\ UNCHANGED <<fixed, event, unitVars, netCalls, chain, thread, thread0, threadReads,
                   threadWrites, gate, override, calls, requests, audits, effective, outcome,
                   result>>

\* lines 148-162 and 181-192: unless the session is AUTH_BP, authorize and
\* check_and_update_rate_limits (check_rate_limit, then update_invocation_count);
\* a denial gives the 429 response, an exception the error response.
AuthorizeAndLimit ==
    /\ pc = "lh_authorize"
    /\ IF session_id = AUTH_BP
       THEN /\ pc' = "start"
            /\ UNCHANGED <<netCalls, response>>
       ELSE IF ~authorize_bound
       THEN /\ response' = [statusCode |-> 500, body |-> ErrorBody("NameError")]
            /\ pc' = "done"
            /\ UNCHANGED netCalls
       ELSE IF access = Unauthorized
       THEN /\ netCalls' = netCalls \o <<"authorize">>
            /\ response' = [statusCode |-> 500, body |-> ErrorBody("Unauthorized")]
            /\ pc' = "done"
       ELSE IF access = Exceeded
       THEN /\ netCalls' = netCalls \o <<"authorize", "check_rate_limit">>
            /\ response' = [statusCode |-> 429, body |-> ErrorBody("rate limit")]
            /\ pc' = "done"
       ELSE IF access = Uncounted
       THEN /\ netCalls' = netCalls \o
                             <<"authorize", "check_rate_limit", "update_invocation_count">>
            /\ response' =
                 [statusCode |-> 429,
                  body |-> ErrorBody("Failed to update AWS invocation count")]
            /\ pc' = "done"
       ELSE /\ netCalls' = netCalls \o
                             <<"authorize", "check_rate_limit", "update_invocation_count">>
            /\ response' = response
            /\ pc' = "start"
    /\ UNCHANGED <<args, event, session_id, unitVars, chain, thread, thread0, threadReads,
                   threadWrites, gate, override, calls, requests, audits, effective, outcome,
                   result>>

\* lines 173-180: the response for the result.
LambdaReturn ==
    /\ pc = "lh_return"
    /\ response' = [statusCode |-> IF result.status = "success" THEN 200 ELSE 500,
                    body |-> result]
    /\ pc' = "done"
    /\ UNCHANGED <<args, event, session_id, unitVars, netCalls, chain, thread, thread0,
                   threadReads, threadWrites, gate, override, calls, requests, audits,
                   effective, outcome, result>>

\* ------------------------------------------ generate_email_response
\* One LLMResponder.send call, as the run records it.
Call(role, responder, email_chain, sent) ==
    [role |-> role, prompt |-> responder.scenario,
     messages |-> format_conversation(responder, email_chain), raised |-> sent.raised]

\* line 372: the Reviewer Gate runs when a conversation id is given and no
\* scenario is forced.
GateApplies(conv, scen) == conv # None /\ scen = None

\* Line 285 comparing with 'True'.
OverrideEnabled_capitalised(ov) == ov = "True"

\* Lines 285-287 left out.
OverrideEnabled_never(ov) == FALSE

\* line 285: if override_flag == 'true'
OverrideEnabled(ov) == ov = "true"

\* Lines 374-377 without the return.
FlaggedEndsCall_never(g) == FALSE

\* lines 374-377: a True from the gate ends the call with None.
FlaggedEndsCall(g) == g = "True"

GerEntry ==
    /\ pc = "ger_entry"
    /\ IF GateApplies(conversation_id, scenario)
       THEN /\ pc' = "gate_read"
            /\ gate' = gate
       ELSE /\ pc' = "ger_scenario"
            /\ gate' = "skipped"
    /\ UNCHANGED <<args, triggerVars, unitVars, netCalls,
                   chain, thread, thread0, threadReads, threadWrites, override, calls,
                   requests, audits, effective, outcome, result>>

\* Lines 281-283 returning False for a missing value.
GateReadOverride_failing_open ==
    /\ pc = "gate_read"
    /\ \E readOk \in BOOLEAN :
         LET ov == get_thread_flag_review_override(thread, readOk)
         IN  /\ override' = ov
             /\ threadReads' = Append(threadReads, readOk)
             /\ IF ov = None \/ OverrideEnabled(ov)
                THEN /\ gate' = "False"
                     /\ pc' = "gate_ret"
                ELSE /\ gate' = gate
                     /\ pc' = "gate_send"
    /\ UNCHANGED <<args, triggerVars, unitVars, netCalls,
                   chain, thread, thread0, threadWrites, calls, requests, audits,
                   effective, outcome, result>>

\* check_with_reviewer_llm, lines 277-287: read the override; a missing value
\* returns True, 'true' returns False.
GateReadOverride ==
    /\ pc = "gate_read"
    /\ \E readOk \in BOOLEAN :
         LET ov == get_thread_flag_review_override(thread, readOk)
         IN  /\ override' = ov
             /\ threadReads' = Append(threadReads, readOk)
             /\ IF ov = None
                THEN /\ gate' = "True"
                     /\ pc' = "gate_ret"
                ELSE IF OverrideEnabled(ov)
                THEN /\ gate' = "False"
                     /\ pc' = "gate_ret"
                ELSE /\ gate' = gate
                     /\ pc' = "gate_send"
    /\ UNCHANGED <<args, triggerVars, unitVars, netCalls,
                   chain, thread, thread0, threadWrites, calls, requests, audits,
                   effective, outcome, result>>

\* check_with_reviewer_llm, lines 289-315: the reviewer call and its decision;
\* CONTINUE returns False, everything else goes on to persist the flag.
GateSend ==
    /\ pc = "gate_send"
    /\ \E http \in HttpResponses :
         LET reviewer == LLMResponder("reviewer_llm", account_id)
             sent == send(reviewer, http)
         IN  /\ calls' = Append(calls, Call("reviewer", reviewer, chain, sent))
             /\ requests' = IF sent.requested THEN requests + 1 ELSE requests
             /\ audits' = IF sent.audited
                          THEN Append(audits, AuditRecord(reviewer, conversation_id, http))
                          ELSE audits
             /\ IF ReviewerDecision(sent)
                THEN /\ pc' = "gate_write"
                     /\ gate' = gate
                ELSE /\ pc' = "gate_ret"
                     /\ gate' = "False"
    /\ UNCHANGED <<args, triggerVars, unitVars, netCalls,
                   chain, thread, thread0, threadReads, threadWrites, override,
                   effective, outcome, result>>

\* update_thread_flag_for_review without the try of lines 197-222: a failed
\* update_item leaves check_with_reviewer_llm and generate_email_response by its
\* exception.
GateWrite_raising ==
    /\ pc = "gate_write"
    /\ \E writeOk \in BOOLEAN :
         /\ thread' = update_thread_flag_for_review(thread, writeOk)
         /\ threadWrites' = Append(threadWrites, writeOk)
         /\ IF writeOk
            THEN /\ gate' = "True"
                 /\ pc' = "gate_ret"
                 /\ outcome' = outcome
            ELSE /\ gate' = gate
                 /\ pc' = AfterGenerate
                 /\ outcome' = Raised("ClientError")
    /\ UNCHANGED <<args, triggerVars, unitVars, netCalls,
                   chain, thread0, threadReads, override, calls, requests, audits,
                   effective, result>>

\* check_with_reviewer_llm, lines 302-304, 310-312, 316-318: persist the flag,
\* log a failed write, return True.
GateWrite ==
    /\ pc = "gate_write"
    /\ \E writeOk \in BOOLEAN :
         /\ thread' = update_thread_flag_for_review(thread, writeOk)
         /\ threadWrites' = Append(threadWrites, writeOk)
    /\ gate' = "True"
    /\ pc' = "gate_ret"
    /\ UNCHANGED <<args, triggerVars, unitVars, netCalls,
                   chain, thread0, threadReads, override, calls, requests, audits,
                   effective, outcome, result>>

\* lines 374-378: what generate_email_response does with the gate's answer.
GerAfterGate ==
    /\ pc = "gate_ret"
    /\ IF FlaggedEndsCall(gate)
       THEN /\ outcome' = ReturnedNone
            /\ pc' = AfterGenerate
       ELSE /\ outcome' = outcome
            /\ pc' = "ger_scenario"
    /\ UNCHANGED <<args, triggerVars, unitVars, netCalls,
                   chain, thread, thread0, threadReads, threadWrites, gate, override,
                   calls, requests, audits, effective, result>>

\* Lines 380-388 looking at the given scenario before the emails.
GerDetermineScenario_forced_first ==
    /\ pc = "ger_scenario"
    /\ IF scenario # None
       THEN /\ effective' = scenario
            /\ pc' = "draft"
       ELSE IF chain = <<>>
       THEN /\ effective' = "intro_email"
            /\ pc' = "draft"
       ELSE /\ effective' = effective
            /\ pc' = "select"
    /\ UNCHANGED <<args, triggerVars, unitVars, netCalls,
                   chain, thread, thread0, threadReads, threadWrites, gate, override,
                   calls, requests, audits, outcome, result>>

\* lines 380-388: no emails gives intro_email, no scenario asks the selector,
\* else the given scenario is used.
GerDetermineScenario ==
    /\ pc = "ger_scenario"
    /\ IF chain = <<>>
       THEN /\ effective' = "intro_email"
            /\ pc' = "draft"
       ELSE IF scenario = None
       THEN /\ effective' = effective
            /\ pc' = "select"
       ELSE /\ effective' = scenario
            /\ pc' = "draft"
    /\ UNCHANGED <<args, triggerVars, unitVars, netCalls,
                   chain, thread, thread0, threadReads, threadWrites, gate, override,
                   calls, requests, audits, outcome, result>>

\* Lines 356-359 raising the exception of the call again.
SelectScenario_propagating ==
    /\ pc = "select"
    /\ \E http \in HttpResponses :
         LET selector == LLMResponder("selector_llm", account_id)
             sent == send(selector, http)
         IN  /\ calls' = Append(calls, Call("selector", selector, chain, sent))
             /\ requests' = IF sent.requested THEN requests + 1 ELSE requests
             /\ audits' = IF sent.audited
                          THEN Append(audits, AuditRecord(selector, conversation_id, http))
                          ELSE audits
             /\ IF sent.raised
                THEN /\ effective' = effective
                     /\ outcome' = Raised(sent.exc)
                     /\ pc' = AfterGenerate
                ELSE /\ effective' = SelectedScenario(sent)
                     /\ outcome' = outcome
                     /\ pc' = "draft"
    /\ UNCHANGED <<args, triggerVars, unitVars, netCalls,
                   chain, thread, thread0, threadReads, threadWrites, gate, override, result>>

\* Lines 356-359 making the selector call again after an exception.
SelectScenario_reissuing ==
    /\ pc = "select"
    /\ \E http \in HttpResponses :
         LET selector == LLMResponder("selector_llm", account_id)
             sent == send(selector, http)
         IN  /\ calls' = Append(calls, Call("selector", selector, chain, sent))
             /\ requests' = IF sent.requested THEN requests + 1 ELSE requests
             /\ audits' = IF sent.audited
                          THEN Append(audits, AuditRecord(selector, conversation_id, http))
                          ELSE audits
             /\ effective' = SelectedScenario(sent)
             /\ pc' = IF sent.raised /\ Len(calls) < 3 THEN "select" ELSE "draft"
    /\ UNCHANGED <<args, triggerVars, unitVars, netCalls,
                   chain, thread, thread0, threadReads, threadWrites, gate, override,
                   outcome, result>>

\* select_scenario_with_llm, lines 328-359.
SelectScenario ==
    /\ pc = "select"
    /\ \E http \in HttpResponses :
         LET selector == LLMResponder("selector_llm", account_id)
             sent == send(selector, http)
         IN  /\ calls' = Append(calls, Call("selector", selector, chain, sent))
             /\ requests' = IF sent.requested THEN requests + 1 ELSE requests
             /\ audits' = IF sent.audited
                          THEN Append(audits, AuditRecord(selector, conversation_id, http))
                          ELSE audits
             /\ effective' = SelectedScenario(sent)
    /\ pc' = "draft"
    /\ UNCHANGED <<args, triggerVars, unitVars, netCalls,
                   chain, thread, thread0, threadReads, threadWrites, gate, override,
                   outcome, result>>

\* Lines 390-401 followed by update_thread_busy_status(conversation_id, 'false').
GenerateDraft_clearing_busy ==
    /\ pc = "draft"
    /\ \E http \in HttpResponses :
         LET responder == LLMResponder(effective, account_id)
             sent == send(responder, http)
         IN  /\ calls' = Append(calls, Call("draft", responder, chain, sent))
             /\ requests' = IF sent.requested THEN requests + 1 ELSE requests
             /\ audits' = IF sent.audited
                          THEN Append(audits, AuditRecord(responder, conversation_id, http))
                          ELSE audits
             /\ outcome' = IF sent.raised THEN Raised(sent.exc) ELSE ReturnedText(sent.text)
    /\ thread' = [thread EXCEPT !.exists = TRUE, !.busy = "false"]
    /\ pc' = AfterGenerate
    /\ UNCHANGED <<args, triggerVars, unitVars, netCalls,
                   chain, thread0, threadReads, threadWrites, gate, override,
                   effective, result>>

\* lines 390-401: the draft; an exception of the call leaves generate_email_response.
GenerateDraft ==
    /\ pc = "draft"
    /\ \E http \in HttpResponses :
         LET responder == LLMResponder(effective, account_id)
             sent == send(responder, http)
         IN  /\ calls' = Append(calls, Call("draft", responder, chain, sent))
             /\ requests' = IF sent.requested THEN requests + 1 ELSE requests
             /\ audits' = IF sent.audited
                          THEN Append(audits, AuditRecord(responder, conversation_id, http))
                          ELSE audits
             /\ outcome' = IF sent.raised THEN Raised(sent.exc) ELSE ReturnedText(sent.text)
    /\ pc' = AfterGenerate
    /\ UNCHANGED <<args, triggerVars, unitVars, netCalls,
                   chain, thread, thread0, threadReads, threadWrites, gate, override,
                   effective, result>>

\* ------------------------------------------------------- specification
Next ==
    \/ ParseEvent
    \/ AuthorizeAndLimit
    \/ LambdaReturn
    \/ GetEmailChain
    \/ TruncateFirstEmail
    \/ CallGenerateEmailResponse
    \/ ReturnResult
    \/ GerEntry
    \/ GateReadOverride
    \/ GateSend
    \/ GateWrite
    \/ GerAfterGate
    \/ GerDetermineScenario
    \/ SelectScenario
    \/ GenerateDraft

Spec == Init /\ [][Next]_vars

\* Every step of a run is a blocking call that returns or raises: a run that can
\* take a step takes it.
FairSpec == Spec /\ WF_vars(Next)

TypeOK ==
    /\ entry \in Entries
    /\ pc \in {"lh_parse", "lh_authorize", "lh_return",
               "start", "truncate", "call", "returned", "done", "ger_entry", "gate_read",
               "gate_send", "gate_write", "gate_ret",
               "ger_scenario", "select", "draft"}
    /\ thread \in Threads
    /\ gate \in {"notrun", "skipped", "True", "False"}
    /\ override \in {"unread", None, "true", "false"}
    /\ effective \in PromptKeys \cup {"banana", None}
    /\ outcome.kind \in {"pending", "returned", "raised"}
    /\ result.status \in {None, "success", "flagged_for_review", "error"}

\* ------------------------------------------ the result construction
\* Lines 46-74 of generate_response_for_conversation under each way
\* generate_email_response ends: None (line 377), the draft's text (line 398),
\* an exception (line 401).  The callee is given by what it returns and by the
\* scenario it settled on: the forced one, or one select_scenario_with_llm returns.
InitResult ==
    /\ entry = Handler
    /\ access = Allowed
    /\ pc = "returned"
    /\ conversation_id \in ConversationIds
    /\ account_id \in AccountIds
    /\ scenario \in ScenarioArgs
    /\ is_first_email \in BOOLEAN
    /\ dbResult \in {r \in DbResults : Len(r.items) = 1}
    /\ chain = get_email_chain(dbResult)
    /\ thread = NoThread
    /\ thread0 = thread
    /\ threadReads = <<>>
    /\ threadWrites = <<>>
    /\ override = "unread"
    /\ calls = <<>>
    /\ requests = 0
    /\ audits = <<>>
    /\ netCalls = <<"get_email_chain">>
    /\ result = NoResult
    /\ response = NoResponse
    /\ event = NoEvent
    /\ session_id = None
    /\ NoUnit
    /\ \E flagged \in BOOLEAN, sel \in ValidScenarios :
         /\ flagged => GateApplies(conversation_id, scenario)
         /\ gate = IF ~GateApplies(conversation_id, scenario) THEN "skipped"
                   ELSE IF flagged THEN "True" ELSE "False"
         /\ effective = IF flagged THEN None ELSE IF scenario = None THEN sel ELSE scenario
         /\ outcome \in IF flagged THEN {ReturnedNone}
                        ELSE {ReturnedText(unescape_newlines(t)) : t \in ReplyTexts}
                             \cup {Raised("Exception")}

NextResult == ReturnResult

SpecResult == InitResult /\ [][NextResult]_vars

\* ------------------------------------------- calls examined on their own
\* The state around a call that is examined on its own.
UnitBase ==
    /\ entry = Direct
    /\ access = Allowed
    /\ event = NoEvent
    /\ session_id = None
    /\ is_first_email = FALSE
    /\ scenario = None
    /\ dbResult = NoList
    /\ chain = <<>>
    /\ thread = NoThread
    /\ Untouched
    /\ effective = None
    /\ outcome = Pending
runVars ==
    <<chain, thread, thread0, threadReads, threadWrites, gate, override, calls, requests,
      netCalls, outcome, result>>

\* The ways selector.send ends for select_scenario_with_llm: an exception, or
\* a text (send has replaced the escaped newlines, line 132).
SendEnds ==
    {[raised |-> TRUE, exc |-> e, requested |-> TRUE, audited |-> FALSE, text |-> NoText] :
        e \in {"Exception", "KeyError"}} \cup
    {[raised |-> FALSE, exc |-> None, requested |-> TRUE, audited |-> FALSE, text |-> t] :
        t \in {x \in Texts : ~x.escaped_nl}}

\* select_scenario_with_llm, lines 333-359, under each way selector.send ends.
InitSelect ==
    /\ UnitBase
    /\ pc = "unit_select"
    /\ conversation_id = "c1"
    /\ account_id \in AccountIds
    /\ sendEnd \in SendEnds
    /\ apiReply = NoHttp
    /\ user = NoUser
    /\ prompts = NoPrompts
    /\ runs = NoRuns
    /\ started = 0

SelectFromReply ==
    /\ pc = "unit_select"
    /\ effective' = SelectedScenario(sendEnd)
    /\ pc' = "done"
    /\ UNCHANGED <<args, triggerVars, unitVars, runVars, audits>>

NextSelect == SelectFromReply

SpecSelect == InitSelect /\ [][NextSelect]_vars

\* LLMResponder.send, lines 86-135, under each API response.
InitSend ==
    /\ UnitBase
    /\ pc = "unit_send"
    /\ conversation_id \in ConversationIds
    /\ account_id \in ResponderAccounts
    /\ apiReply \in HttpResponses
    /\ sendEnd = NotSent
    /\ user = NoUser
    /\ prompts = NoPrompts
    /\ runs = NoRuns
    /\ started = 0

SendRequest ==
    /\ pc = "unit_send"
    /\ \E k \in PromptKeys :
         LET responder == LLMResponder(k, account_id)
             s == send_request(responder, apiReply)
         IN  /\ sendEnd' = s
             /\ calls' = Append(calls, Call("send", responder, chain, s))
             /\ requests' = IF s.requested THEN requests + 1 ELSE requests
             /\ audits' = IF s.audited
                          THEN Append(audits, AuditRecord(responder, conversation_id, apiReply))
                          ELSE audits
    /\ pc' = "done"
    /\ UNCHANGED <<args, triggerVars, apiReply, user, prompts, runs, started, chain, thread,
                   thread0, threadReads, threadWrites, gate, override, netCalls, effective,
                   outcome, result>>

NextSend == SendRequest

SpecSend == InitSend /\ [][NextSend]_vars

\* get_prompts for each account and each Users row.
InitPrompts ==
    /\ UnitBase
    /\ pc = "unit_prompts"
    /\ conversation_id = "c1"
    /\ account_id \in ResponderAccounts
    /\ user \in Users
    /\ prompts = NoPrompts
    /\ apiReply = NoHttp
    /\ sendEnd = NotSent
    /\ runs = NoRuns
    /\ started = 0

GetPrompts ==
    /\ pc = "unit_prompts"
    /\ prompts' = get_prompts(account_id, user)
    /\ pc' = "done"
    /\ UNCHANGED <<args, triggerVars, apiReply, sendEnd, user, runs, started, runVars, audits,
                   effective>>

NextPrompts == GetPrompts

SpecPrompts == InitPrompts /\ [][NextPrompts]_vars

\* generate_email_response(emails, uid, 'c1') from line 296 on, under each way
\* reviewer.send ends: the override was read from a thread that does not
\* enable it (lines 277-287), the reviewer was made (lines 289-292).
InitReview ==
    /\ entry = Direct
    /\ access = Allowed
    /\ event = NoEvent
    /\ session_id = None
    /\ is_first_email = FALSE
    /\ scenario = None
    /\ dbResult = NoList
    /\ conversation_id = "c1"
    /\ account_id \in AccountIds
    /\ chain \in SeqsUpTo(Emails, 1)
    /\ thread \in {t \in Threads : t.exists /\ t.flag_review_override # "true"}
    /\ thread0 = thread
    /\ threadReads = <<TRUE>>
    /\ threadWrites = <<>>
    /\ override = get_thread_flag_review_override(thread, TRUE)
    /\ gate = "notrun"
    /\ calls = <<>>
    /\ requests = 0
    /\ audits = <<>>
    /\ netCalls = <<>>
    /\ result = NoResult
    /\ response = NoResponse
    /\ effective = None
    /\ outcome = Pending
    /\ pc = "unit_review"
    /\ sendEnd \in SendEnds
    /\ apiReply = NoHttp
    /\ user = NoUser
    /\ prompts = NoPrompts
    /\ runs = NoRuns
    /\ started = 0

\* check_with_reviewer_llm, lines 296-315: the decision for the way the call ended.
ReviewFromReply ==
    /\ pc = "unit_review"
    /\ LET reviewer == LLMResponder("reviewer_llm", account_id)
       IN  calls' = Append(calls, Call("reviewer", reviewer, chain, sendEnd))
    /\ requests' = IF sendEnd.requested THEN requests + 1 ELSE requests
    /\ IF ReviewerDecision(sendEnd)
       THEN /\ pc' = "gate_write"
            /\ gate' = gate
       ELSE /\ pc' = "gate_ret"
            /\ gate' = "False"
    /\ UNCHANGED <<args, triggerVars, unitVars, netCalls, chain, thread, thread0, threadReads,
                   threadWrites, override, audits, effective, outcome, result>>

NextReview ==
    \/ ReviewFromReply
    \/ GateWrite
    \/ GerAfterGate
    \/ GerDetermineScenario
    \/ SelectScenario
    \/ GenerateDraft

SpecReview == InitReview /\ [][NextReview]_vars

\* LLMResponder.format_conversation for each list of emails, in any order, of
\* any type and without a type, and for each scenario a responder is made with.
ListedEmails == [timestamp : Timestamps, type : EmailTypes \cup {"note", Absent}]

InitFormat ==
    /\ entry = Direct
    /\ access = Allowed
    /\ event = NoEvent
    /\ session_id = None
    /\ is_first_email = FALSE
    /\ scenario = None
    /\ dbResult = NoList
    /\ conversation_id = "c1"
    /\ account_id \in ResponderAccounts
    /\ chain \in SeqsUpTo(ListedEmails, MaxChain)
    /\ thread = NoThread
    /\ Untouched
    /\ NoUnit
    /\ effective = None
    /\ outcome = Pending
    /\ pc = "unit_format"

FormatConversation ==
    /\ pc = "unit_format"
    /\ \E k \in ScenarioArgs \ {None} :
         /\ effective' = k
         /\ calls' = <<Call("format", LLMResponder(k, account_id), chain, NotSent)>>
    /\ pc' = "done"
    /\ UNCHANGED <<args, triggerVars, unitVars, netCalls, chain, thread, thread0, threadReads,
                   threadWrites, gate, override, requests, audits, outcome, result>>

NextFormat == FormatConversation

SpecFormat == InitFormat /\ [][NextFormat]_vars

\* ------------------------------------------- runs on the same thread
\* Runs of generate_email_response(emails, uid, 'c1') started one after the
\* other and side by side on one conversation, each step of a run being one
\* call to the Threads table or to the completion API, and the updates of the
\* thread made from outside the run (the review of a flagged thread).
soloVars ==
    <<pc, chain, thread0, threadReads, threadWrites, gate, override, calls, netCalls, effective,
      outcome, result>>
restOfRuns == <<args, triggerVars, apiReply, sendEnd, user, prompts, soloVars>>

InitRuns ==
    /\ entry = Direct
    /\ access = Allowed
    /\ event = NoEvent
    /\ session_id = None
    /\ is_first_email = FALSE
    /\ scenario = None
    /\ dbResult = NoList
    /\ conversation_id = "c1"
    /\ account_id = "a1"
    /\ chain \in {c \in SeqsUpTo(Emails, 1) : Len(c) = 1 /\ c[1].timestamp = 1}
    /\ thread \in Threads
    /\ Untouched
    /\ NoUnit
    /\ effective = None
    /\ outcome = Pending
    /\ pc = "runs"

\* A call of generate_email_response, lines 361-373.
StartRun(r) ==
    /\ runs[r].pc \in {"idle", "done"}
    /\ started < MaxRuns
    /\ started' = started + 1
    /\ runs' = [runs EXCEPT ![r] =
                  [Idle EXCEPT !.pc = IF GateApplies(conversation_id, scenario)
                                      THEN "gate_read" ELSE "ger_scenario",
                               !.gate = IF GateApplies(conversation_id, scenario)
                                        THEN "notrun" ELSE "skipped"]]
    /\ UNCHANGED <<restOfRuns, thread, requests, audits>>

\* check_with_reviewer_llm, lines 277-287
RunReadOverride(r) ==
    /\ runs[r].pc = "gate_read"
    /\ \E readOk \in BOOLEAN :
         LET ov == get_thread_flag_review_override(thread, readOk)
         IN  runs' = [runs EXCEPT ![r].override = ov,
                                  ![r].read = Access(readOk, thread),
                                  ![r].gate = IF ov = None THEN "True"
                                              ELSE IF OverrideEnabled(ov) THEN "False" ELSE @,
                                  ![r].pc = IF ov = None \/ OverrideEnabled(ov)
                                            THEN "gate_ret" ELSE "gate_send"]
    /\ UNCHANGED <<restOfRuns, thread, requests, audits, started>>

\* check_with_reviewer_llm, lines 289-315
RunReview(r) ==
    /\ runs[r].pc = "gate_send"
    /\ \E http \in HttpResponses :
         LET reviewer == LLMResponder("reviewer_llm", account_id)
             sent == send(reviewer, http)
         IN  /\ runs' = [runs EXCEPT ![r].calls = Append(@, Call("reviewer", reviewer, chain, sent)),
                                      ![r].gate = IF ReviewerDecision(sent) THEN @ ELSE "False",
                                      ![r].pc = IF ReviewerDecision(sent)
                                                THEN "gate_write" ELSE "gate_ret"]
             /\ requests' = IF sent.requested THEN requests + 1 ELSE requests
             /\ audits' = IF sent.audited
                          THEN Append(audits, AuditRecord(reviewer, conversation_id, http))
                          ELSE audits
    /\ UNCHANGED <<restOfRuns, thread, started>>

\* check_with_reviewer_llm, lines 302-304, 310-312, 316-318
RunWriteFlag(r) ==
    /\ runs[r].pc = "gate_write"
    /\ \E writeOk \in BOOLEAN :
         /\ thread' = update_thread_flag_for_review(thread, writeOk)
         /\ runs' = [runs EXCEPT ![r].write = Access(writeOk, thread),
                                  ![r].gate = "True",
                                  ![r].pc = "gate_ret"]
    /\ UNCHANGED <<restOfRuns, requests, audits, started>>

\* generate_email_response, lines 374-388
RunAfterGate(r) ==
    /\ runs[r].pc = "gate_ret"
    /\ runs' = IF FlaggedEndsCall(runs[r].gate)
               THEN [runs EXCEPT ![r].outcome = ReturnedNone, ![r].pc = "done"]
               ELSE IF chain = <<>>
               THEN [runs EXCEPT ![r].effective = "intro_email", ![r].pc = "draft"]
               ELSE IF scenario = None
               THEN [runs EXCEPT ![r].pc = "select"]
               ELSE [runs EXCEPT ![r].effective = scenario, ![r].pc = "draft"]
    /\ UNCHANGED <<restOfRuns, thread, requests, audits, started>>

\* select_scenario_with_llm, lines 328-359
RunSelect(r) ==
    /\ runs[r].pc = "select"
    /\ \E http \in HttpResponses :
         LET selector == LLMResponder("selector_llm", account_id)
             sent == send(selector, http)
         IN  /\ runs' = [runs EXCEPT ![r].calls = Append(@, Call("selector", selector, chain, sent)),
                                      ![r].effective = SelectedScenario(sent),
                                      ![r].pc = "draft"]
             /\ requests' = IF sent.requested THEN requests + 1 ELSE requests
             /\ audits' = IF sent.audited
                          THEN Append(audits, AuditRecord(selector, conversation_id, http))
                          ELSE audits
    /\ UNCHANGED <<restOfRuns, thread, started>>

\* generate_email_response, lines 390-401
RunDraft(r) ==
    /\ runs[r].pc = "draft"
    /\ \E http \in HttpResponses :
         LET responder == LLMResponder(runs[r].effective, account_id)
             sent == send(responder, http)
         IN  /\ runs' = [runs EXCEPT ![r].calls = Append(@, Call("draft", responder, chain, sent)),
                                      ![r].outcome = IF sent.raised THEN Raised(sent.exc)
                                                     ELSE ReturnedText(sent.text),
                                      ![r].pc = "done"]
             /\ requests' = IF sent.requested THEN requests + 1 ELSE requests
             /\ audits' = IF sent.audited
                          THEN Append(audits, AuditRecord(responder, conversation_id, http))
                          ELSE audits
    /\ UNCHANGED <<restOfRuns, thread, started>>

\* An update of the thread by a caller of update_thread_flag_review_override
\* or of update_thread_flag_for_review(.., 'false').
ExternalUpdate ==
    /\ thread.exists
    /\ thread' \in ({update_thread_flag_review_override(thread, f) : f \in Flags}
                     \cup {clear_thread_flag_for_review(thread)}) \ {thread}
    /\ UNCHANGED <<restOfRuns, runs, requests, audits, started>>

NextRuns ==
    \/ \E r \in RunIds : StartRun(r)
    \/ \E r \in RunIds : RunReadOverride(r)
    \/ \E r \in RunIds : RunReview(r)
    \/ \E r \in RunIds : RunWriteFlag(r)
    \/ \E r \in RunIds : RunAfterGate(r)
    \/ \E r \in RunIds : RunSelect(r)
    \/ \E r \in RunIds : RunDraft(r)
    \/ ExternalUpdate

SpecRuns == InitRuns /\ [][NextRuns]_vars

\* ---------------------------------------------------------- properties
Finished == pc = "done"
FetchedChain == get_email_chain(dbResult)
Called(role) == \E i \in DOMAIN calls : calls[i].role = role
CallRaised(role) == \E i \in DOMAIN calls : calls[i].role = role /\ calls[i].raised
\* check_with_reviewer_llm was called and has returned.
GateReturned == gate \in {"True", "False"}
\* The prompt entry the draft is made with.
UsedScenario == LLMResponder(effective, account_id).scenario

\* C1: the selector and the draft are called only after the Reviewer Gate was
\* skipped or returned False; once the gate has returned True no selector and no
\* draft call is made, generate_email_response returns None, and lines 48-56 turn
\* that return into status flagged_for_review with no response text.
C1_DraftOnlyAfterGate ==
    /\ (Called("selector") \/ Called("draft")) => gate \in {"skipped", "False"}
    /\ gate = "True" =>
         /\ ~Called("selector") /\ ~Called("draft")
         /\ effective = None
         /\ Finished =>
              /\ outcome = ReturnedNone
              /\ ResultOf(outcome, conversation_id, scenario).status = "flagged_for_review"
              /\ ResultOf(outcome, conversation_id, scenario).response = None
              /\ entry = Handler => result = ResultOf(outcome, conversation_id, scenario)

C1_Witness ==
    /\ Finished /\ gate = "True" /\ Called("reviewer") /\ chain # <<>>

\* C2 (as claimed): a run of generate_response_for_conversation on a non-empty
\* fetched chain whose gate is skipped or returns False and in which no call
\* fails ends with status success, carrying the text, the conversation id and
\* the invocation id.
C2_SuccessWhenNothingFails ==
    ( /\ entry = Handler /\ Finished
      /\ FetchedChain # <<>>
      /\ ~GateApplies(conversation_id, scenario) \/ gate = "False"
      /\ \A i \in DOMAIN calls : ~calls[i].raised )
    => /\ result.status = "success"
       /\ result.response = "text"
       /\ result.conversation_id = conversation_id
       /\ result.invocation_id = InvocationId

\* C3 (as claimed): in a finished run past the chain fetch the Reviewer Gate has
\* run exactly when a conversation id is given and no scenario is forced; with a
\* forced scenario neither gate nor selector runs, the thread is neither read
\* nor written, and exactly one LLM call, the draft, is made.
C3_GateIffUnforced ==
    (Finished /\ (entry = Handler => FetchedChain # <<>>))
    => /\ GateReturned <=> GateApplies(conversation_id, scenario)
       /\ scenario # None =>
            /\ ~GateReturned /\ ~Called("reviewer") /\ ~Called("selector")
            /\ threadReads = <<>> /\ threadWrites = <<>> /\ thread = thread0
            /\ Len(calls) = 1 /\ calls[1].role = "draft"

C5_ForcedScenarioReported ==
    result.status = "success" =>
        /\ result.llm_email_type \in ValidScenarios
        /\ scenario \in ValidScenarios => result.llm_email_type = scenario

C5_Witness ==
    /\ result.status = "success" /\ scenario = "summarizer" /\ chain # <<>>
    /\ result.llm_email_type = "summarizer"

\* C6 (as claimed): a run ends with status error only when the chain fetch gave
\* nothing or the draft call failed, and the error result carries the
\* invocation id.
C6_ErrorOnlyFromFetchOrDraft ==
    (entry = Handler /\ Finished /\ result.status = "error")
    => /\ FetchedChain = <<>> \/ CallRaised("draft")
       /\ result.invocation_id = InvocationId

\* C7: every run ends, and a run of generate_response_for_conversation ends
\* with one of the three results and keeps it.
C7_RunTerminates ==
    <>[](Finished /\ (entry = Handler =>
                        result.status \in {"flagged_for_review", "success", "error"}))

C7_Witness ==
    /\ entry = Handler /\ Finished /\ FetchedChain # <<>>
    /\ result.status \in {"flagged_for_review", "success", "error"}

\* C8: when the chain fetch gives an empty list or fails, the run ends with the
\* chain error, and at no point runs the gate, calls an LLM or touches the thread.
C8_EmptyChainStopsRun ==
    (entry = Handler /\ FetchedChain = <<>>)
    => /\ gate = "notrun" /\ override = "unread"
       /\ calls = <<>> /\ requests = 0
       /\ threadReads = <<>> /\ threadWrites = <<>> /\ thread = thread0
       /\ Finished => /\ result.status = "error"
                      /\ result.error = "Could not get email chain"

C8_Witness ==
    /\ entry = Handler /\ Finished /\ ~dbResult.is_list /\ result.status = "error"

\* C9 (as claimed): once the reviewer call has raised and the gate has
\* returned, the gate's answer is True and the thread holds
\* flag_for_review = "true" and busy = "false".
C9_FlaggedAndStored ==
    (CallRaised("reviewer") /\ pc # "gate_write")
    => /\ gate = "True"
       /\ thread.flag_for_review = "true"
       /\ thread.busy = "false"

\* C9 (amended): once the reviewer call has raised and the gate has returned,
\* the gate's answer is True and it has issued one update; when the update
\* succeeded the thread holds flag_for_review = "true" and busy = "false" (the
\* override untouched), when it failed the thread is as it was.
C9_FlaggedAndWriteIssued ==
    (CallRaised("reviewer") /\ pc # "gate_write")
    => /\ gate = "True"
       /\ Len(threadWrites) = 1
       /\ threadWrites[1] =>
            /\ thread.exists
            /\ thread.flag_for_review = "true"
            /\ thread.busy = "false"
            /\ thread.flag_review_override = thread0.flag_review_override
       /\ ~threadWrites[1] => thread = thread0

C9_Witness ==
    /\ CallRaised("reviewer") /\ Finished /\ gate = "True"
    /\ threadWrites = <<TRUE>> /\ thread0.busy = "true" /\ thread.busy = "false"

\* C10: when the override read is "true" the gate returns False, has called no
\* LLM and has written nothing to the thread.
C10_OverrideSkipsReview ==
    override = "true"
    => /\ gate = "False"
       /\ ~Called("reviewer")
       /\ threadWrites = <<>> /\ thread = thread0
       /\ pc = "gate_ret" => (calls = <<>> /\ requests = 0)

C10_Witness ==
    /\ override = "true" /\ pc = "gate_ret" /\ gate = "False" /\ chain # <<>>

\* C11: when the override read gives no value (the read failed or the thread is
\* missing) the gate returns True having made no LLM call, no request and no
\* write; a successful read of a thread that lacks the attribute gives "false",
\* and the gate goes on to the reviewer call instead of returning.
C11_MissingThreadFlags ==
    /\ override = None
       => /\ gate = "True"
          /\ ~thread0.exists \/ threadReads = <<FALSE>>
          /\ ~Called("reviewer")
          /\ threadWrites = <<>> /\ thread = thread0
          /\ pc = "gate_ret" => (calls = <<>> /\ requests = 0)
    /\ (threadReads = <<TRUE>> /\ thread0.exists /\ thread0.flag_review_override = Absent)
       => /\ override = "false"
          /\ pc = "gate_send" \/ Called("reviewer")

C11_Witness ==
    /\ override = None /\ pc = "gate_ret" /\ gate = "True" /\ ~thread0.exists
    /\ threadReads = <<TRUE>> /\ chain # <<>>

\* C12 (as claimed): once the gate has returned True, for whichever reason, it
\* has issued one update of the thread, and a thread that changed holds
\* flag_for_review = "true" and busy = "false".
C12_EveryFlagDecisionWritten ==
    /\ (gate = "True" /\ pc # "gate_write") => Len(threadWrites) = 1
    /\ thread # thread0 => (thread.flag_for_review = "true" /\ thread.busy = "false")

\* C12 (amended): a True taken from the reviewer call (its response or its
\* exception) comes with one update that sets flag_for_review = "true" and
\* busy = "false" together; a True taken from a missing override value comes
\* with no update at all.  No state holds a thread with one of the two written.
C12_FlagDecisionWritten ==
    /\ (gate = "True" /\ pc # "gate_write")
       => IF override = None
          THEN threadWrites = <<>> /\ thread = thread0 /\ ~Called("reviewer")
          ELSE Len(threadWrites) = 1 /\ Called("reviewer")
    /\ thread # thread0
       => /\ threadWrites = <<TRUE>>
          /\ thread.flag_for_review = "true" /\ thread.busy = "false"
          /\ thread.flag_review_override = thread0.flag_review_override

C12_Witness ==
    /\ gate = "True" /\ pc = "gate_ret" /\ override = "false" /\ threadWrites = <<TRUE>>
    /\ thread0.exists /\ thread0.flag_for_review = "false" /\ thread0.busy = "true"
    /\ thread.flag_for_review = "true" /\ thread.busy = "false"

\* A required field that is neither a key of the payload nor a key of its body.
Lacks(field) ==
    /\ event.top[field] = Absent
    /\ event.body.kind = "json" => event.body.fields[field] = Absent

\* C19: when the payload carries conversation_id or account_id neither at top
\* level nor in its body, lambda_handler goes from reading the payload straight
\* to the error response: no authorization, rate-limit or chain-fetch call, no
\* thread read or write, no LLM call.
C19_MissingFieldFailsFast ==
    (entry = Trigger /\ (Lacks("conversation_id") \/ Lacks("account_id")))
    => /\ pc \in {"lh_parse", "done"}
       /\ netCalls = <<>>
       /\ threadReads = <<>> /\ threadWrites = <<>> /\ thread = thread0
       /\ calls = <<>> /\ requests = 0 /\ audits = <<>>
       /\ gate = "notrun" /\ result = NoResult
       /\ Finished => /\ response.statusCode = 500
                      /\ response.body.status = "error"
                      /\ response.body.error # Absent
                      /\ response.body.invocation_id = InvocationId

C19_Witness ==
    /\ entry = Trigger /\ Finished /\ Lacks("account_id") /\ ~Lacks("conversation_id")
    /\ event.top.session_id = AUTH_BP /\ event.body.kind = "json"
    /\ response.statusCode = 500

\* C13: whatever the selector call gives, select_scenario_with_llm returns one
\* of the four drafting scenarios: the word of the reply, whatever its casing
\* and the whitespace around it, when that word is one of the four; intro_email
\* for "intro"; continuation_email for everything else and for an exception.
C13_SelectorReturnsValid ==
    (pc = "done" /\ sendEnd # NotSent)
    => /\ effective \in ValidScenarios
       /\ effective =
            IF sendEnd.raised THEN "continuation_email"
            ELSE IF sendEnd.text.word = "intro" THEN "intro_email"
            ELSE IF sendEnd.text.word \in ValidScenarios THEN sendEnd.text.word
            ELSE "continuation_email"

C13_Witness ==
    /\ pc = "done" /\ ~sendEnd.raised /\ sendEnd.text.word = "intro"
    /\ sendEnd.text.casing = "upper" /\ sendEnd.text.padded /\ effective = "intro_email"

\* C14: once the selector call has raised, the scenario is continuation_email
\* and the run is at the draft step or past it; the draft call is made with the
\* continuation_email prompt, and an exception that ends the run is the draft
\* call's, never the selector's.
C14_SelectorFailureContinues ==
    CallRaised("selector")
    => /\ effective = "continuation_email"
       /\ pc \in {"draft", "returned", "lh_return", "done"}
       /\ pc # "draft"
          => /\ Len(calls) >= 2
             /\ calls[Len(calls)].role = "draft"
             /\ calls[Len(calls)].prompt = "continuation_email"
             /\ calls[Len(calls) - 1].role = "selector"
       /\ outcome.kind = "raised" => CallRaised("draft")

C14_Witness ==
    /\ CallRaised("selector") /\ Finished /\ Called("draft") /\ gate = "False"
    /\ calls[Len(calls)].prompt = "continuation_email" /\ Len(chain) = MaxChain

\* C15 (as claimed): no draft call is made with the selector_llm or the
\* reviewer_llm prompt entry.
C15_DraftNeverControlPrompt ==
    \A i \in DOMAIN calls :
        calls[i].role = "draft" => calls[i].prompt \notin {"selector_llm", "reviewer_llm"}

\* get_email_chain has been called.
Fetched == \E i \in DOMAIN netCalls : netCalls[i] = "get_email_chain"

\* C16: in a run with is_first_email past line 42, the chain is the one earliest
\* email of the fetched chain, whatever its length; the message list formatted
\* from it for any prompt holds the system message and one message made of that
\* email, and every list a call of the run carries is such a list.
C16_FirstEmailOnly ==
    (entry # Direct /\ is_first_email /\ Fetched /\ pc # "truncate" /\ FetchedChain # <<>>)
    => /\ chain = <<FetchedChain[1]>>
       /\ \A j \in DOMAIN dbResult.items :
            FetchedChain[1].timestamp <= dbResult.items[j].timestamp
       /\ \A k \in PromptKeys :
            LET m == format_conversation(LLMResponder(k, account_id), chain)
            IN  /\ Len(m) = 2
                /\ m[1].role = "system"
                /\ m[2].role \in {"user", "assistant"}
                /\ m[2].content = FetchedChain[1]
       /\ \A i \in DOMAIN calls :
            /\ Len(calls[i].messages) = 2
            /\ calls[i].messages[2].content = FetchedChain[1]

C16_Witness ==
    /\ entry = Handler /\ is_first_email /\ Finished /\ Len(FetchedChain) = MaxChain
    /\ FetchedChain[1] # FetchedChain[MaxChain] /\ chain = <<FetchedChain[1]>>

\* The account's tone, style and sample are all the NULL sentinel.
NullPreferences ==
    /\ account_id \notin {None, ""}
    /\ user.found
    /\ user.row.lcp_tone = "NULL"
    /\ user.row.lcp_style = "NULL"
    /\ user.row.lcp_sample_prompt = "NULL"

\* C17 (as claimed): for an account whose tone, style and sample are all NULL,
\* every drafting scenario's instruction text is the one get_prompts(None)
\* gives, whatever the account's location, state, country, zipcode and bio.
C17_NullPreferencesGiveBase ==
    (pc = "done" /\ prompts # NoPrompts /\ NullPreferences)
    => \A k \in ValidScenarios : prompts[k].system = get_prompts(None, NoUser)[k].system

\* C17 (amended): the same for an account that also has no bio, no location,
\* no state and no country other than the United States, whatever its zipcode;
\* an account with one of these gets a text that differs from the base one.
C17_NullPreferencesNoBioGiveBase ==
    (pc = "done" /\ prompts # NoPrompts /\ NullPreferences)
    => LET noBio == /\ user.row.bio = "" /\ user.row.location = "" /\ user.row.state = ""
                    /\ user.row.country \in {"", "United States"}
       IN  \A k \in ValidScenarios :
              noBio <=> prompts[k].system = get_prompts(None, NoUser)[k].system

C17_Witness ==
    /\ pc = "done" /\ prompts # NoPrompts /\ NullPreferences
    /\ user.row.bio = "" /\ user.row.location = "" /\ user.row.state = ""
    /\ user.row.country = "United States" /\ user.row.zipcode = "78701"
    /\ prompts["intro_email"].system = get_prompts(None, NoUser)["intro_email"].system

C20_OnlyGateWritesThread ==
    /\ [][(thread' # thread \/ threadWrites' # threadWrites)
            => (pc = "gate_write" /\ pc' = "gate_ret")]_vars
    /\ [](outcome.kind = "raised" => (thread = thread0 /\ threadWrites = <<>>))

C20_Witness ==
    /\ Finished /\ outcome.kind = "raised" /\ Called("selector") /\ CallRaised("draft")
    /\ gate = "False" /\ thread.exists /\ thread.busy = "true" /\ thread = thread0

\* The place of a call in the order reviewer, selector, draft.
Rank(role) == IF role = "reviewer" THEN 1 ELSE IF role = "selector" THEN 2 ELSE 3

\* C21: the LLM calls of a run are made one after the other in the order
\* reviewer, selector, draft: each at most once, three at most, and a call that
\* raised is followed only by a call of a later kind.
C21_CallsInOrderOnce ==
    /\ Len(calls) <= 3
    /\ requests <= Len(calls)
    /\ \A i \in DOMAIN calls : calls[i].role \in {"reviewer", "selector", "draft"}
    /\ \A i, j \in DOMAIN calls : i < j => Rank(calls[i].role) < Rank(calls[j].role)

C21_Witness ==
    /\ Finished /\ Len(calls) = 3
    /\ calls[1].role = "reviewer" /\ calls[2].role = "selector" /\ calls[3].role = "draft"
    /\ calls[2].raised /\ calls[3].raised

\* C22: the gate's decision is a function of the word of the reviewer's reply,
\* whatever its casing and the whitespace around it: FLAG gives True, CONTINUE
\* gives False, any other text and the empty text give True; the selector is
\* called only after a CONTINUE, and after any other reply the run ends with
\* None and no further call.
C22_DecisionFromReply ==
    (pc \notin {"unit_review", "gate_write"} /\ ~sendEnd.raised)
    => /\ sendEnd.text.word = "flag" => gate = "True"
       /\ sendEnd.text.word = "continue" => gate = "False"
       /\ sendEnd.text.word \notin {"flag", "continue"} => gate = "True"
       /\ (Called("selector") \/ Called("draft")) => sendEnd.text.word = "continue"
       /\ (Finished /\ sendEnd.text.word # "continue")
          => (outcome = ReturnedNone /\ Len(calls) = 1)

C22_Witness ==
    /\ Finished /\ ~sendEnd.raised /\ sendEnd.text.word = "continue"
    /\ sendEnd.text.casing = "mixed" /\ sendEnd.text.padded
    /\ gate = "False" /\ Called("selector") /\ chain # <<>>

\* C23: the scenario generate_email_response settles on is intro_email for an
\* empty chain (a forced scenario is dropped, the selector is not called), else
\* the forced scenario as given, else what the selector returned; and the gate
\* comes first: when it applies, it has read the thread and returned False
\* before a scenario is settled, an empty chain included.
C23_ScenarioPrecedence ==
    /\ effective # None
       => IF chain = <<>> THEN effective = "intro_email"
          ELSE IF scenario # None THEN effective = scenario
          ELSE effective \in ValidScenarios
    /\ Called("selector") <=> (effective # None /\ chain # <<>> /\ scenario = None)
    /\ (GateApplies(conversation_id, scenario) /\ (effective # None \/ pc \in {"ger_scenario", "select"}))
       => (gate = "False" /\ threadReads # <<>>)

C23_Witness ==
    /\ entry = Direct /\ Finished /\ chain = <<>> /\ scenario = None /\ conversation_id = "c1"
    /\ gate = "False" /\ threadReads = <<TRUE>> /\ effective = "intro_email"
    /\ ~Called("selector") /\ Called("draft")

\* C24: when the update of the thread fails, the gate still returns True, no
\* selector and no draft call is made, generate_email_response returns None,
\* which lines 48-56 turn into flagged_for_review with no response text, and the
\* thread is as it was before the run.
C24_FailedWriteStillFlags ==
    threadWrites = <<FALSE>>
    => /\ gate = "True"
       /\ thread = thread0
       /\ ~Called("selector") /\ ~Called("draft")
       /\ Called("reviewer")
       /\ outcome.kind # "raised"
       /\ Finished =>
            /\ outcome = ReturnedNone
            /\ ResultOf(outcome, conversation_id, scenario).status = "flagged_for_review"
            /\ ResultOf(outcome, conversation_id, scenario).response = None
            /\ entry # Direct => result = ResultOf(outcome, conversation_id, scenario)

C24_Witness ==
    /\ Finished /\ threadWrites = <<FALSE>> /\ gate = "True" /\ outcome = ReturnedNone
    /\ thread0.exists /\ thread0.flag_for_review = "false" /\ thread0.busy = "true"
    /\ thread = thread0 /\ chain # <<>>

RunCalled(r, role) == \E i \in DOMAIN runs[r].calls : runs[r].calls[i].role = role

\* C25 (as claimed): a run whose get_item met a thread with flag_review_override
\* "true" makes no reviewer call, is not flagged by its gate and does not end
\* with None (flagged_for_review): it goes on to the selector and the draft.
C25_OverrideAlwaysSkips ==
    \A r \in RunIds :
        (runs[r].read.made /\ runs[r].read.flag_review_override = "true")
        => /\ ~RunCalled(r, "reviewer")
           /\ runs[r].gate # "True"
           /\ runs[r].outcome # ReturnedNone
           /\ runs[r].pc = "done" => (RunCalled(r, "selector") /\ RunCalled(r, "draft"))

\* C25 (amended): the same for every run whose get_item succeeded, however many
\* runs came before and whatever the other run does; a run whose get_item
\* failed makes no reviewer call either, writes nothing, and ends with None.
C25_OverrideSkipsWhenRead ==
    \A r \in RunIds :
        (runs[r].read.made /\ runs[r].read.flag_review_override = "true")
        => IF runs[r].read.ok
           THEN /\ runs[r].override = "true"
                /\ ~RunCalled(r, "reviewer")
                /\ runs[r].gate = "False"
                /\ ~runs[r].write.made
                /\ runs[r].outcome # ReturnedNone
                /\ runs[r].pc = "done" => (RunCalled(r, "selector") /\ RunCalled(r, "draft"))
           ELSE /\ runs[r].override = None
                /\ runs[r].calls = <<>>
                /\ runs[r].gate = "True"
                /\ ~runs[r].write.made
                /\ runs[r].pc = "done" => runs[r].outcome = ReturnedNone

C25_Witness ==
    /\ started = MaxRuns
    /\ thread.flag_review_override = "true"
    /\ \A r \in RunIds :
         /\ runs[r].pc = "done" /\ runs[r].read.ok /\ runs[r].override = "true"
         /\ RunCalled(r, "selector") /\ RunCalled(r, "draft")

\* C28: a step of a run leaves the thread or turns it into the item with
\* flag_for_review "true", busy "false" and the override it had: no run step
\* writes flag_for_review "false", busy "true" or the override, a flag that is
\* "true" stays "true" through every run step, and every write gives the same
\* item whichever run makes it and in whichever order.
C28_RunsOnlyRaiseFlag ==
    [][(runs' # runs)
        => /\ thread'.flag_review_override = thread.flag_review_override
           /\ thread'.busy # thread.busy => thread'.busy = "false"
           /\ thread'.flag_for_review # thread.flag_for_review => thread'.flag_for_review = "true"
           /\ thread.flag_for_review = "true" => thread'.flag_for_review = "true"
           /\ thread' # thread
              => thread' = [exists |-> TRUE, busy |-> "false", flag_for_review |-> "true",
                            flag_review_override |-> thread.flag_review_override]]_vars

C28_Witness ==
    /\ \A r \in RunIds : runs[r].pc = "done" /\ runs[r].write.made /\ runs[r].write.ok
    /\ thread.flag_for_review = "true" /\ thread.busy = "false"

\* C30 (as claimed): no update_item of a run that succeeded met a thread whose
\* flag_review_override was "true".
C30_WriteNeverMeetsOverride ==
    \A r \in RunIds :
        (runs[r].write.made /\ runs[r].write.ok) => runs[r].write.flag_review_override # "true"

\* C30 (amended): a run makes its update_item only after its own get_item
\* succeeded and gave a value other than "true"; the two are separate steps.
C30_WriteOnlyAfterReadingFalse ==
    \A r \in RunIds :
        runs[r].write.made
        => /\ runs[r].read.made /\ runs[r].read.ok
           /\ runs[r].read.flag_review_override # "true"
           /\ runs[r].override = "false"
           /\ RunCalled(r, "reviewer")

C30_Witness ==
    \E r \in RunIds :
        /\ runs[r].write.made /\ runs[r].write.ok /\ runs[r].write.flag_review_override = "true"
        /\ runs[r].read.ok /\ runs[r].read.flag_review_override = "false"
        /\ thread.flag_for_review = "true" /\ thread.flag_review_override = "true"

\* C26: for a list of n emails format_conversation gives n + 1 messages: the
\* system message with the prompt of the responder's scenario, then for each
\* email, in the order of the list, one message made of that email with role
\* "user" when its type is inbound-email and "assistant" for any other type and
\* for no type; for no emails, the system message alone.
C26_OneMessagePerEmail ==
    (pc = "done" /\ calls # <<>> /\ calls[1].role = "format")
    => LET m == calls[1].messages
       IN  /\ Len(m) = Len(chain) + 1
           /\ m[1].role = "system"
           /\ m[1].content = (IF effective \in PromptKeys THEN effective ELSE "continuation_email")
           /\ \A i \in DOMAIN chain :
                /\ m[i + 1].content = chain[i]
                /\ m[i + 1].role \in {"user", "assistant"}
                /\ m[i + 1].role = "user" <=> chain[i].type = "inbound-email"
           /\ chain = <<>> => m = <<[role |-> "system", content |-> m[1].content]>>

C26_Witness ==
    /\ pc = "done" /\ calls # <<>> /\ calls[1].role = "format" /\ Len(chain) = MaxChain
    /\ chain[1].type = Absent /\ chain[1].timestamp = 2
    /\ chain[MaxChain].type = "inbound-email" /\ chain[MaxChain].timestamp = 1
    /\ calls[1].messages[2].role = "assistant"
    /\ calls[1].messages[MaxChain + 1].role = "user"

\* A Users row with every preference set.
FullRow ==
    [lcp_tone |-> "warm", lcp_style |-> "concise", lcp_sample_prompt |-> "sample",
     location |-> "Austin", state |-> "TX", country |-> "Canada", zipcode |-> "78701",
     bio |-> "bio"]
\* What get_prompts gives other callers: one without an account, one whose
\* account has no preferences, one whose account has them all.
OtherResolutions ==
    {get_prompts(None, NoUser), get_prompts("a1", [found |-> TRUE, row |-> BlankRow]),
     get_prompts("a1", [found |-> TRUE, row |-> FullRow])}

\* C27: whatever the account and its Users row, the dictionary get_prompts
\* returns has, for every scenario, the hyperparameters it has for any other
\* account, and for selector_llm and reviewer_llm the whole entry it has for any
\* other account; only the texts of the four drafting scenarios differ.
C27_HyperparametersShared ==
    (pc = "done" /\ prompts # NoPrompts)
    => \A o \in OtherResolutions :
         /\ \A k \in PromptKeys : prompts[k].hyperparameters = o[k].hyperparameters
         /\ \A k \in {"selector_llm", "reviewer_llm"} : prompts[k] = o[k]
         /\ \A k \in PromptKeys : prompts[k].system.template = k

C27_Witness ==
    /\ pc = "done" /\ account_id = "a1" /\ user.found /\ user.row.lcp_tone = "warm"
    /\ user.row.lcp_sample_prompt = "sample" /\ user.row.bio = "bio"
    /\ prompts["intro_email"].system # get_prompts(None, NoUser)["intro_email"].system
    /\ prompts["intro_email"].hyperparameters = get_prompts(None, NoUser)["intro_email"].hyperparameters
    /\ prompts["reviewer_llm"] = get_prompts(None, NoUser)["reviewer_llm"]

\* C29 (as claimed): a run that started on a thread with flag_for_review "true"
\* makes no draft call.
C29_NoDraftOnFlaggedThread ==
    thread0.flag_for_review = "true" => ~Called("draft")

\* C29 (amended): a run that started on a thread with flag_for_review "true"
\* makes a draft call only when its gate was skipped, or returned False because
\* the override read was "true" or because the reviewer call returned; the
\* run has then written nothing, and the flag is still "true".
C29_FlaggedThreadDraftsPastGate ==
    (thread0.flag_for_review = "true" /\ Called("draft"))
    => /\ \/ gate = "skipped" /\ ~GateApplies(conversation_id, scenario)
          \/ gate = "False" /\ override = "true" /\ ~Called("reviewer")
          \/ gate = "False" /\ override = "false" /\ Called("reviewer") /\ ~CallRaised("reviewer")
       /\ threadWrites = <<>>
       /\ thread = thread0

C29_Witness ==
    /\ Finished /\ thread0.flag_for_review = "true" /\ thread0.busy = "false" /\ Called("draft")
    /\ scenario = None /\ conversation_id = "c1" /\ gate = "False" /\ override = "true"
    /\ Called("selector") /\ thread.flag_for_review = "true"

LimitsApply == ~parse_event(event).raised /\ parse_event(event).session_id # AUTH_BP
\* check_and_update_rate_limits (lines 76-90) has a denial to return: the account
\* passes authorize and is over its limit, or its count cannot be updated.
DenialDue == LimitsApply /\ access \in {Exceeded, Uncounted}
\* generate_response_for_conversation was called and has returned.
Orchestrated == result # NoResult

\* C32 (as claimed): a finished lambda_handler invocation that ran the
\* orchestration returns statusCode 200 exactly when the result status is
\* 'success' and 500 for a flagged_for_review or error result; one whose
\* rate-limit check has a denial to return returns statusCode 429 and has run
\* no orchestration: no chain fetch, no thread-state access, no LLM call.
C32_StatusCodeFollowsOutcome ==
    (entry = Trigger /\ Finished) =>
        /\ Orchestrated =>
             /\ response.statusCode = 200 <=> result.status = "success"
             /\ result.status \in {"flagged_for_review", "error"} =>
                  response.statusCode = 500
        /\ DenialDue =>
             /\ response.statusCode = 429
             /\ ~Orchestrated
             /\ ~Fetched
             /\ threadReads = <<>> /\ threadWrites = <<>>
             /\ calls = <<>> /\ requests = 0

====
